---- MODULE Spec2Model ----
(***************************************************************************)
(* Submission / evaluation / leaderboard core of SynapEvents.              *)
(*                                                                         *)
(* The request handlers of controllers/submission.controller.js and the   *)
(* Sequelize models they use are modelled as state machines over the rows  *)
(* of the entity store.  Every `await` of a handler is a point where       *)
(* another request may run, so a handler is a chain of actions, one per    *)
(* awaited store call, each including the synchronous code that follows    *)
(* the call up to the next await or the response.                          *)
(*                                                                         *)
(* Identifiers used by the handlers (Evaluation, TeamMember, EventJudge,   *)
(* sequelize) denote the models and the Sequelize instance of the          *)
(* repository; store calls have the meaning Sequelize documents for them   *)
(* (paranoid finders, validation before hooks, upsert without save hooks). *)
(***************************************************************************)
EXTENDS Integers, Sequences, FiniteSets, TLC

(* ---- bounds ---------------------------------------------------------- *)
NumProcs == 2
MaxRequests == 2
MaxTime == 2

(* ---- JavaScript values ------------------------------------------------ *)
\* null, undefined and NaN, kept apart from every date, score and size
Null == -1
Undefined == -2
NaN == -3

Procs == 1..NumProcs

\* obj[name] of JavaScript: a property the object lacks reads as undefined
Attr(obj, name) == IF name \in DOMAIN obj THEN obj[name] ELSE Undefined

\* new Date(v): an undefined argument gives an Invalid Date (time value NaN)
NewDate(v) == IF v = Undefined \/ v = NaN THEN NaN ELSE IF v = Null THEN 0 ELSE v

\* a > b on dates: every comparison with an Invalid Date is false
DateGt(a, b) == a # NaN /\ b # NaN /\ a > b

\* a <= b on dates; a null operand converts to 0
DateLe(a, b) == a # NaN /\ b # NaN /\ (IF a = Null THEN 0 ELSE a) <= (IF b = Null THEN 0 ELSE b)

(* ---- rows that the modelled handlers only read ------------------------ *)
\* Event rows, with the date attributes of the Event model
EventIds == {"E1", "E2", "E3"}

Events ==
  [e \in EventIds |->
     IF e = "E1"
     THEN [id |-> "E1", organizerId |-> "org", submissionDeadline |-> 1, endDate |-> 2,
           registrationStart |-> 0, registrationEnd |-> 1, maxTeamSize |-> 2,
           judgingCriteria |-> <<[id |-> "c1", name |-> "Innovation", maxScore |-> 10]>>]
     ELSE IF e = "E2"
     THEN [id |-> "E2", organizerId |-> "org2", submissionDeadline |-> 2, endDate |-> 2,
           registrationStart |-> 0, registrationEnd |-> 1, maxTeamSize |-> 1,
           judgingCriteria |-> <<>>]
     ELSE [id |-> "E3", organizerId |-> "org2", submissionDeadline |-> Null, endDate |-> 2,
           registrationStart |-> 0, registrationEnd |-> 1, maxTeamSize |-> 5,
           judgingCriteria |-> <<>>]]

\* Team rows
TeamIds == {"T1", "T2", "T3", "T4"}

Teams ==
  [t \in TeamIds |-> [id |-> t, eventId |-> IF t = "T3" THEN "E2" ELSE "E1"]]

\* TeamMember rows
TeamMembers ==
  { [teamId |-> "T1", userId |-> "m1", status |-> "accepted", role |-> "admin"],
    [teamId |-> "T1", userId |-> "m2", status |-> "accepted", role |-> "member"],
    [teamId |-> "T1", userId |-> "p1", status |-> "pending",  role |-> "member"],
    [teamId |-> "T1", userId |-> "r1", status |-> "rejected", role |-> "member"],
    [teamId |-> "T1", userId |-> "l1", status |-> "left",     role |-> "member"],
    [teamId |-> "T2", userId |-> "m3", status |-> "accepted", role |-> "admin"],
    [teamId |-> "T3", userId |-> "m3", status |-> "accepted", role |-> "admin"],
    [teamId |-> "T4", userId |-> "m4", status |-> "accepted", role |-> "admin"] }

\* EventJudge rows
EventJudges ==
  { [eventId |-> "E1", userId |-> "j1", status |-> "accepted"],
    [eventId |-> "E1", userId |-> "j2", status |-> "accepted"],
    [eventId |-> "E1", userId |-> "j3", status |-> "pending"],
    [eventId |-> "E1", userId |-> "j4", status |-> "rejected"],
    [eventId |-> "E2", userId |-> "j3", status |-> "accepted"] }

\* req.user.roles
Roles(u) == IF u = "adm" THEN {"admin"} ELSE {"participant"}

(* ---- state ------------------------------------------------------------ *)
VARIABLES
  now,          \* the clock read by new Date()
  submissions,  \* Submission rows, in insertion order; the id is the position
  evaluations,  \* Evaluation rows
  uploads,      \* number of objects the storage service holds
  pc,           \* pc[p]: where request p stands in its handler
  req,          \* req[p]: the request and the handler's local variables
  resp,         \* the last response sent
  started,      \* number of requests issued so far
  board,        \* the last leaderboard response
  teams,        \* Team rows created by createTeam, in insertion order
  members,      \* TeamMember rows of those teams
  eventRows,    \* Event rows created by createEvent, in insertion order
  snapshots     \* per Submission, the (mean, count) its Evaluation rows had after
                \* each upsert of submitEvaluation

vars == <<now, submissions, evaluations, uploads, pc, req, resp, started, board, teams, members,
          eventRows, snapshots>>

NoReq == [op |-> "none"]
NoResp == [op |-> "none", status |-> 0, kind |-> "none"]
NoBoard == [status |-> 0, eventId |-> "", rows |-> <<>>, total |-> 0, limit |-> 0, offset |-> 0]

\* averageScore is a float; it is kept as the reduced fraction num/den
NullAvg == [num |-> Null, den |-> 1]

RECURSIVE Gcd(_, _)
Gcd(a, b) == IF b = 0 THEN a ELSE Gcd(b, a % b)

\* the float a / b, for a >= 0 and b > 0
Div(a, b) == LET g == Gcd(a, b) IN [num |-> a \div g, den |-> b \div g]

\* the aggregate attributes of a Submission without evaluations
NoAggregates == [averageScore |-> NullAvg, totalEvaluations |-> 0]

BaseInit ==
  /\ now = 0
  /\ evaluations = {}
  /\ uploads = 0
  /\ pc = [p \in Procs |-> "idle"]
  /\ req = [p \in Procs |-> NoReq]
  /\ resp = NoResp
  /\ started = 0
  /\ board = NoBoard
  /\ teams = <<>>
  /\ members = {}
  /\ eventRows = <<>>
  /\ snapshots = {}

\* the clock advances
Tick ==
  /\ now < MaxTime
  /\ now' = now + 1
  /\ UNCHANGED <<snapshots, eventRows, teams, members, submissions, evaluations, uploads, pc, req, resp, started, board>>

Respond(p, r) ==
  /\ resp' = r
  /\ pc' = [pc EXCEPT ![p] = "idle"]
  /\ req' = [req EXCEPT ![p] = NoReq]

(* ======================================================================= *)
(* createSubmission                                                        *)
(* ======================================================================= *)
SubCallers == {"m1", "m2", "m3", "p1", "r1", "l1"}
SubEventIds == EventIds \cup {"E0"}
SubTeamIds == {"T1", "T2", "T3", "T0"}
TitleLens == {2, 5}
NoFile == [present |-> FALSE, mimetype |-> "", size |-> Null]
AFile == [present |-> TRUE, mimetype |-> "application/zip", size |-> 7]

\* the window without the comparison with submissionDeadline
isSubmissionOpen_EndDateOnly(ev, t) ==
  IF ev.submissionDeadline = Null THEN FALSE
  ELSE DateLe(t, ev.endDate)

\* Event.prototype.isSubmissionOpen
isSubmissionOpen(ev, t) ==
  IF ev.submissionDeadline = Null THEN FALSE
  ELSE DateLe(t, ev.submissionDeadline) /\ DateLe(t, ev.endDate)

\* the include without its status condition
FindTeamOfMember_AnyStatus(teamId, userId) ==
  /\ teamId \in TeamIds
  /\ \E m \in TeamMembers : m.teamId = teamId /\ m.userId = userId

\* Team.findByPk(teamId, include TeamMember of the caller with status accepted, required)
FindTeamOfMember(teamId, userId) ==
  /\ teamId \in TeamIds
  /\ \E m \in TeamMembers : m.teamId = teamId /\ m.userId = userId /\ m.status = "accepted"

SubIds == 1..Len(submissions)

\* the check with the status condition inverted
ExistingSubmission_DraftOnly(teamId, eventId) ==
  \E i \in SubIds : /\ submissions[i].teamId = teamId
                    /\ submissions[i].eventId = eventId
                    /\ submissions[i].status = "draft"

\* Submission.findOne({teamId, eventId, status != 'draft'}) finds a row
ExistingSubmission(teamId, eventId) ==
  \E i \in SubIds : /\ submissions[i].teamId = teamId
                    /\ submissions[i].eventId = eventId
                    /\ submissions[i].status # "draft"

\* Submission.beforeCreate: a draft becomes submitted when the team has no row yet
BeforeCreateStatus(status, teamId, eventId) ==
  IF status = "draft"
     /\ Cardinality({i \in SubIds : submissions[i].teamId = teamId
                                     /\ submissions[i].eventId = eventId}) = 0
  THEN "submitted"
  ELSE status

\* the title validator of the Submission model
TitleValid(len) == len >= 3 /\ len <= 200

\* how the caller stands to the named team: the status of the caller's
\* TeamMember record in it, else "other_team" for an accepted member of another
\* team of the team's event, else "none"
Standing(userId, teamId) ==
  IF \E m \in TeamMembers : m.userId = userId /\ m.teamId = teamId
  THEN (CHOOSE m \in TeamMembers : m.userId = userId /\ m.teamId = teamId).status
  ELSE IF /\ teamId \in TeamIds
          /\ \E m \in TeamMembers : /\ m.userId = userId
                                     /\ m.status = "accepted"
                                     /\ Teams[m.teamId].eventId = Teams[teamId].eventId
  THEN "other_team"
  ELSE "none"

\* what is recorded of a response: the status, the branch that sent it, and
\* what the request met (a submission of its team at arrival, the caller's
\* standing in the team, an open window at the check)
CsLog(p, status, kind) ==
  [op |-> "createSubmission", status |-> status, kind |-> kind,
   standing |-> req[p].standing,
   existedAtStart |-> req[p].existedAtStart,
   member |-> req[p].member,
   openAt |-> req[p].openAt, created |-> 0]

\* the team has a submitted entry for the event (the row a later request must meet)
TeamHasSubmitted(teamId, eventId) ==
  \E i \in 1..Len(submissions) : /\ submissions[i].teamId = teamId
                                 /\ submissions[i].eventId = eventId
                                 /\ submissions[i].status # "draft"

\* a createSubmission request arrives; a field of the request that only a
\* later step reads (req.user, req.file, title) is drawn at that step, and
\* req.user at the latest when the response is recorded
CS_Start(p) ==
  /\ pc[p] = "idle"
  /\ started < MaxRequests
  /\ \E e \in SubEventIds, t \in SubTeamIds :
       req' = [req EXCEPT ![p] =
                 [op |-> "createSubmission", eventId |-> e, teamId |-> t,
                  standing |-> "none", file |-> NoFile, fileUrl |-> Null,
                  existedAtStart |-> TeamHasSubmitted(t, e),
                  openAt |-> FALSE, member |-> FALSE]]
  /\ pc' = [pc EXCEPT ![p] = "cs_event"]
  /\ started' = started + 1
  /\ UNCHANGED <<snapshots, eventRows, teams, members, now, submissions, evaluations, uploads, resp, board>>

\* Event.findByPk and the isSubmissionOpen check
CS_FindEvent(p) ==
  /\ pc[p] = "cs_event"
  /\ IF req[p].eventId \notin EventIds \/ ~isSubmissionOpen(Events[req[p].eventId], now)
     THEN \E u \in SubCallers :
            Respond(p, [CsLog(p, 400, "closed") EXCEPT !.standing = Standing(u, req[p].teamId)])
     ELSE /\ pc' = [pc EXCEPT ![p] = "cs_team"]
          /\ req' = [req EXCEPT ![p].openAt = TRUE]
          /\ UNCHANGED resp
  /\ UNCHANGED <<snapshots, eventRows, teams, members, now, submissions, evaluations, uploads, started, board>>

\* Team.findByPk with the caller's accepted membership
CS_FindTeam(p) ==
  /\ pc[p] = "cs_team"
  /\ \E u \in SubCallers :
       IF ~FindTeamOfMember(req[p].teamId, u)
       THEN Respond(p, [CsLog(p, 403, "forbidden") EXCEPT !.standing = Standing(u, req[p].teamId)])
       ELSE /\ pc' = [pc EXCEPT ![p] = "cs_existing"]
            /\ req' = [req EXCEPT ![p].member = TRUE,
                                       ![p].standing = Standing(u, req[p].teamId)]
            /\ UNCHANGED resp
  /\ UNCHANGED <<snapshots, eventRows, teams, members, now, submissions, evaluations, uploads, started, board>>

\* the existing-submission check, then the branch on req.file
CS_FindExisting(p) ==
  /\ pc[p] = "cs_existing"
  /\ IF ExistingSubmission(req[p].teamId, req[p].eventId)
     THEN Respond(p, CsLog(p, 400, "already_submitted"))
     ELSE /\ \E f \in {NoFile, AFile} :
               /\ req' = [req EXCEPT ![p].file = f]
               /\ pc' = [pc EXCEPT ![p] = IF f.present THEN "cs_upload" ELSE "cs_create"]
          /\ UNCHANGED resp
  /\ UNCHANGED <<snapshots, eventRows, teams, members, now, submissions, evaluations, uploads, started, board>>

\* uploadToStorage: stores the file and returns its url, or throws
CS_Upload(p) ==
  /\ pc[p] = "cs_upload"
  /\ \/ /\ uploads' = uploads + 1
        /\ req' = [req EXCEPT ![p].fileUrl = uploads + 1]
        /\ pc' = [pc EXCEPT ![p] = "cs_create"]
        /\ UNCHANGED resp
     \/ /\ Respond(p, CsLog(p, 500, "error"))
        /\ UNCHANGED uploads
  /\ UNCHANGED <<snapshots, eventRows, teams, members, now, submissions, evaluations, started, board>>

\* the row without the metadata of the upload
NewSubmission_NoFileData(p) ==
  [id |-> Len(submissions) + 1,
   eventId |-> req[p].eventId, teamId |-> req[p].teamId,
   status |-> BeforeCreateStatus("submitted", req[p].teamId, req[p].eventId),
   fileUrl |-> Null, fileType |-> "", fileSize |-> Null,
   averageScore |-> NullAvg, totalEvaluations |-> 0]

\* the row Submission.create inserts
NewSubmission(p) ==
  [id |-> Len(submissions) + 1,
   eventId |-> req[p].eventId, teamId |-> req[p].teamId,
   status |-> BeforeCreateStatus("submitted", req[p].teamId, req[p].eventId),
   fileUrl |-> req[p].fileUrl,
   fileType |-> IF req[p].file.present THEN req[p].file.mimetype ELSE "",
   fileSize |-> IF req[p].file.present THEN req[p].file.size ELSE Null,
   averageScore |-> NullAvg, totalEvaluations |-> 0]

\* Submission.create (validation, then the insert) and the 201 response
CS_Create(p) ==
  /\ pc[p] = "cs_create"
  /\ \E tl \in TitleLens :
       IF ~TitleValid(tl)
       THEN /\ Respond(p, CsLog(p, 500, "error"))
            /\ UNCHANGED submissions
       ELSE /\ submissions' = Append(submissions, NewSubmission(p))
            /\ Respond(p, [CsLog(p, 201, "created") EXCEPT !.created = Len(submissions) + 1])
  /\ UNCHANGED <<snapshots, eventRows, teams, members, now, evaluations, uploads, started, board>>

createSubmission(p) ==
  \/ CS_Start(p)
  \/ CS_FindEvent(p)
  \/ CS_FindTeam(p)
  \/ CS_FindExisting(p)
  \/ CS_Upload(p)
  \/ CS_Create(p)

SubInit ==
  /\ BaseInit
  /\ submissions = <<>>

SubNext ==
  \/ Tick
  \/ \E p \in Procs : createSubmission(p)

SubSpec == SubInit /\ [][SubNext]_vars

(* ======================================================================= *)
(* Evaluation model and Submission.prototype.calculateScores               *)
(* ======================================================================= *)

\* JSON values of a request body or query string
JsNum(n) == [t |-> "number", n |-> n, s |-> ""]
JsStr(str) == [t |-> "string", n |-> 0, s |-> str]
JsUndefined == [t |-> "undefined", n |-> 0, s |-> ""]

\* the attributes of the Evaluation model (those no handler reads are left out)
EvaluationAttributes ==
  {"id", "submissionId", "judgeId", "round", "score", "criteriaScores", "feedback", "status"}

\* the defaultValue of each attribute
EvaluationDefaults ==
  [id |-> 0, submissionId |-> Null, judgeId |-> "", round |-> 1, score |-> Null,
   criteriaScores |-> {}, feedback |-> "", status |-> "draft"]

\* Model.build(values): a key that is not an attribute of the model is ignored
Build(values) == [a \in (DOMAIN values) \cap EvaluationAttributes |-> values[a]]

\* the values of `over` laid over the row `base`
Merge(base, over) == [a \in DOMAIN base |-> IF a \in DOMAIN over THEN over[a] ELSE base[a]]

\* the validators without the maximum
ScoreValid_NoMax(score) == score >= 0

\* the validators of Evaluation.score: allowNull false, min 0, max 100
ScoreValid(score) == score >= 0 /\ score <= 100

\* the rows the index unique_judge_submission_round sets against a new row
ConflictRows(rows, row) ==
  {r \in rows : /\ r.submissionId = row.submissionId
                /\ r.judgeId = row.judgeId
                /\ r.round = row.round}

\* the row an INSERT of the built values stores
NewEvaluation(rows, built) ==
  Merge([EvaluationDefaults EXCEPT !.id = Cardinality(rows) + 1], built)

\* Evaluation.upsert(values): insert, or on a conflict update the given values
Upsert(rows, built) ==
  LET ins == NewEvaluation(rows, built)
      hit == ConflictRows(rows, ins)
  IN IF hit = {} THEN rows \cup {ins}
     ELSE (rows \ hit) \cup {Merge(r, built) : r \in hit}

\* submission.getEvaluations()
getEvaluations(id) == {r \in evaluations : r.submissionId = id}

\* evalItem.score || 0
ScoreOrZero(score) == IF score < 0 THEN 0 ELSE score

\* evaluations.reduce((sum, evalItem) => sum + (evalItem.score || 0), 0)
RECURSIVE totalScore(_)
totalScore(evals) ==
  IF evals = {} THEN 0
  ELSE LET evalItem == CHOOSE r \in evals : TRUE
       IN ScoreOrZero(evalItem.score) + totalScore(evals \ {evalItem})

\* calculateScores with the evaluations of round 1 only
calculateScores_Round1(evals) ==
  LET r1 == {r \in evals : r.round = 1}
  IN IF Cardinality(r1) = 0
     THEN NoAggregates
     ELSE [averageScore |-> Div(totalScore(r1), Cardinality(r1)),
           totalEvaluations |-> Cardinality(r1)]

\* Submission.prototype.calculateScores, up to the assignments to this
calculateScores(evals) ==
  IF Cardinality(evals) = 0
  THEN NoAggregates
  ELSE [averageScore |-> Div(totalScore(evals), Cardinality(evals)),
        totalEvaluations |-> Cardinality(evals)]

\* a save that writes nothing
SaveChanged_NoWrite(row, inst, calc) == row

\* this.save(): the UPDATE sets the attributes whose value differs from the one loaded
SaveChanged(row, inst, calc) ==
  [row EXCEPT
     !.averageScore = IF calc.averageScore # inst.averageScore THEN calc.averageScore ELSE @,
     !.totalEvaluations = IF calc.totalEvaluations # inst.totalEvaluations
                          THEN calc.totalEvaluations ELSE @]

\* the aggregate attributes of a Submission row, as an instance holds them
Aggregates(row) == [averageScore |-> row.averageScore, totalEvaluations |-> row.totalEvaluations]

(* ======================================================================= *)
(* submitEvaluation                                                        *)
(* ======================================================================= *)
EvalCallers == {"j1", "j2", "j3", "j4", "adm", "org", "m1"}

Payloads ==
  { [score |-> 60,  feedback |-> "good",  criteria |-> {<<"c1", JsNum(10)>>}],
    [score |-> 100, feedback |-> "great", criteria |-> {<<"c1", JsNum(11)>>}],
    [score |-> 100, feedback |-> "great", criteria |-> {}],
    [score |-> Undefined, feedback |-> "good", criteria |-> {<<"c1", JsNum(10)>>}],
    [score |-> 101, feedback |-> "good", criteria |-> {<<"c1", JsNum(10)>>}] }

NoPayload == [score |-> Undefined, feedback |-> "", criteria |-> {}]

\* the include without its status condition
HasJudgeRow_AnyStatus(eventId, userId) ==
  \E j \in EventJudges : j.eventId = eventId /\ j.userId = userId

\* an accepted EventJudge row of the caller for the event
HasJudgeRow(eventId, userId) ==
  \E j \in EventJudges : j.eventId = eventId /\ j.userId = userId /\ j.status = "accepted"

\* what is recorded of a response: the status and the branch that sent it
SeLog(status, kind) == [op |-> "submitEvaluation", status |-> status, kind |-> kind]

\* the record of the 500 that answers a failed upsert, with the body it refused
SeUpsertFailed(body) ==
  [op |-> "submitEvaluation", status |-> 500, kind |-> "error", payload |-> body]

\* the record of a rejection, with the caller it was sent to
SeRejected(status, kind, userId) ==
  [op |-> "submitEvaluation", status |-> status, kind |-> kind, userId |-> userId]

\* a submitEvaluation request arrives for submission id
SE_Start(p) ==
  /\ pc[p] = "idle"
  /\ started < MaxRequests
  /\ \E id \in 1..(Len(submissions) + 1) :
       req' = [req EXCEPT ![p] =
                 [op |-> "submitEvaluation", id |-> id, userId |-> "",
                  inst |-> NoAggregates, calc |-> NoAggregates,
                  payload |-> NoPayload, created |-> FALSE]]
  /\ pc' = [pc EXCEPT ![p] = "se_load"]
  /\ started' = started + 1
  /\ UNCHANGED <<snapshots, eventRows, teams, members, now, submissions, evaluations, uploads, resp, board>>

\* Submission.findByPk with the event and the caller's judge row, then the
\* permission check and the judging-window check
SE_Load(p) ==
  /\ pc[p] = "se_load"
  /\ \E u \in EvalCallers :
       LET id == req[p].id IN
       IF id \notin SubIds
       THEN Respond(p, SeLog(404, "not_found"))
       ELSE LET submission == submissions[id]
                event == Events[submission.eventId]
                isEventOrganizer == event.organizerId = u
                isAdmin == "admin" \in Roles(u)
                isJudge == HasJudgeRow(submission.eventId, u)
            IN IF ~isEventOrganizer /\ ~isAdmin /\ ~isJudge
               THEN Respond(p, SeRejected(403, "forbidden", u))
               ELSE IF DateGt(now, NewDate(Attr(event, "judgingEnd"))) /\ ~isAdmin
               THEN Respond(p, SeRejected(400, "judging_ended", u))
               ELSE /\ req' = [req EXCEPT ![p].userId = u,
                                          ![p].inst = Aggregates(submission)]
                    /\ pc' = [pc EXCEPT ![p] = "se_upsert"]
                    /\ UNCHANGED resp
  /\ UNCHANGED <<snapshots, eventRows, teams, members, now, submissions, evaluations, uploads, started, board>>

\* the (mean, count) of the Evaluation rows of submission id among rows
Snapshot(id, rows) ==
  [id |-> id, agg |-> calculateScores({r \in rows : r.submissionId = id})]

\* the values submitEvaluation hands to Evaluation.upsert
UpsertValues(id, userId, body) ==
  [submissionId |-> id, judgeId |-> userId, score |-> body.score,
   feedback |-> body.feedback, criteria |-> body.criteria, status |-> "submitted"]

\* Evaluation.upsert: validation, then the insert or update
SE_Upsert(p) ==
  /\ pc[p] = "se_upsert"
  /\ \E body \in Payloads :
       LET built == Build(UpsertValues(req[p].id, req[p].userId, body))
       IN IF ~ScoreValid(built.score)
          THEN /\ Respond(p, SeUpsertFailed(body))
               /\ UNCHANGED <<evaluations, snapshots>>
          ELSE /\ evaluations' = Upsert(evaluations, built)
               /\ snapshots' = snapshots \cup {Snapshot(req[p].id, Upsert(evaluations, built))}
               /\ req' = [req EXCEPT ![p].payload = body,
                                     ![p].created = (ConflictRows(evaluations,
                                                       NewEvaluation(evaluations, built)) = {})]
               /\ pc' = [pc EXCEPT ![p] = "se_calc_read"]
               /\ UNCHANGED resp
  /\ UNCHANGED <<eventRows, teams, members, now, submissions, uploads, started, board>>

\* calculateScores: getEvaluations and the assignments to the instance
SE_CalcRead(p) ==
  /\ pc[p] = "se_calc_read"
  /\ req' = [req EXCEPT ![p].calc = calculateScores(getEvaluations(req[p].id))]
  /\ pc' = [pc EXCEPT ![p] = "se_calc_save"]
  /\ UNCHANGED <<snapshots, eventRows, teams, members, now, submissions, evaluations, uploads, resp, started, board>>

\* calculateScores: this.save(), then the 201 or 200 response
SE_CalcSave(p) ==
  /\ pc[p] = "se_calc_save"
  /\ submissions' = [submissions EXCEPT ![req[p].id] = SaveChanged(@, req[p].inst, req[p].calc)]
  /\ Respond(p, SeLog(IF req[p].created THEN 201 ELSE 200,
                      IF req[p].created THEN "created" ELSE "updated"))
  /\ UNCHANGED <<snapshots, eventRows, teams, members, now, evaluations, uploads, started, board>>

submitEvaluation(p) ==
  \/ SE_Start(p)
  \/ SE_Load(p)
  \/ SE_Upsert(p)
  \/ SE_CalcRead(p)
  \/ SE_CalcSave(p)

\* a Submission row as createSubmission leaves it
SubmittedRow(id, eventId, teamId) ==
  [id |-> id, eventId |-> eventId, teamId |-> teamId, status |-> "submitted",
   fileUrl |-> Null, fileType |-> "", fileSize |-> Null,
   averageScore |-> NullAvg, totalEvaluations |-> 0]

\* a team has submitted; no evaluation yet
EvalInit ==
  /\ BaseInit
  /\ submissions = <<SubmittedRow(1, "E1", "T1")>>

EvalNext ==
  \/ Tick
  \/ \E p \in Procs : submitEvaluation(p)

\* submitEvaluation requests in any interleaving
EvalSpec == EvalInit /\ [][EvalNext]_vars

\* no other request is in progress
Alone(p) == \A q \in Procs \ {p} : pc[q] = "idle"

EvalSeqNext ==
  \/ Tick
  \/ \E p \in Procs : Alone(p) /\ submitEvaluation(p)

\* submitEvaluation requests one at a time
EvalSeqSpec == EvalInit /\ [][EvalSeqNext]_vars

\* the record of the 500 that answers a failure of calculateScores
SeCalcFailed(userId, body) ==
  [op |-> "submitEvaluation", status |-> 500, kind |-> "error",
   userId |-> userId, payload |-> body, failed |-> "calculateScores"]

\* a rollback of the upsert, which the handler does not perform
SE_CalcFail_Rollback(p) ==
  /\ pc[p] \in {"se_calc_read", "se_calc_save"}
  /\ evaluations' = {r \in evaluations : ~(r.submissionId = req[p].id /\ r.judgeId = req[p].userId)}
  /\ Respond(p, SeCalcFailed(req[p].userId, req[p].payload))
  /\ UNCHANGED <<snapshots, eventRows, teams, members, now, submissions, uploads, started, board>>

\* calculateScores rejects: the query of getEvaluations or the UPDATE of save
\* fails, the catch block answers 500; nothing is rolled back
SE_CalcFail(p) ==
  /\ pc[p] \in {"se_calc_read", "se_calc_save"}
  /\ Respond(p, SeCalcFailed(req[p].userId, req[p].payload))
  /\ UNCHANGED <<snapshots, eventRows, teams, members, now, submissions, evaluations, uploads, started, board>>

FaultNext ==
  \/ Tick
  \/ \E p \in Procs : Alone(p) /\ submitEvaluation(p)
  \/ \E p \in Procs : Alone(p) /\ SE_CalcFail(p)

\* submitEvaluation requests one at a time, over a database whose queries may fail
\* once the upsert has succeeded
FaultSpec == EvalInit /\ [][FaultNext]_vars

\* the body of the evaluation that judge j1 has already submitted
FirstPayload == [score |-> 60, feedback |-> "good", criteria |-> {<<"c1", JsNum(10)>>}]

\* the state a first submitEvaluation of j1 on submission 1 leaves: the row
\* of the upsert, the aggregates calculateScores saved
ReEvalInit ==
  /\ now = 0
  /\ evaluations = Upsert({}, Build(UpsertValues(1, "j1", FirstPayload)))
  /\ submissions = <<[SubmittedRow(1, "E1", "T1") EXCEPT !.averageScore = Div(60, 1),
                                                          !.totalEvaluations = 1]>>
  /\ snapshots = {Snapshot(1, Upsert({}, Build(UpsertValues(1, "j1", FirstPayload))))}
  /\ uploads = 0
  /\ pc = [p \in Procs |-> "idle"]
  /\ req = [p \in Procs |-> NoReq]
  /\ resp = NoResp
  /\ started = 0
  /\ board = NoBoard
  /\ teams = <<>>
  /\ members = {}
  /\ eventRows = <<>>

\* submitEvaluation requests, in any interleaving, on a Submission that has
\* been evaluated once
ReEvalSpec == ReEvalInit /\ [][EvalNext]_vars

(* ======================================================================= *)
(* The methods of the Evaluation and Submission models, called one at a    *)
(* time                                                                    *)
(* ======================================================================= *)
MaxModelCalls == 3

ModelJudges == {"j1", "j2"}
ModelRounds == {1, 2}

\* the score and criteriaScores a new Evaluation is built with
ModelDrafts ==
  { [score |-> 60,  criteriaScores |-> {}],
    [score |-> 100, criteriaScores |-> {<<"c1", JsNum(10)>>}],
    [score |-> 0,   criteriaScores |-> {<<"c1", JsNum(10)>>}],
    [score |-> 0,   criteriaScores |-> {<<"c1", JsNum(11)>>}],
    [score |-> 0,   criteriaScores |-> {<<"c1", JsStr("abc")>>}],
    [score |-> 0,   criteriaScores |-> {}],
    [score |-> 101, criteriaScores |-> {}] }

ModelScores == {0, 60, 100}

\* parseFloat of a string
ParseFloatStr(str) == IF str = "7" THEN 7 ELSE IF str = "5abc" THEN 5 ELSE NaN

\* parseFloat(v)
ParseFloat(v) == IF v.t = "number" THEN v.n ELSE IF v.t = "string" THEN ParseFloatStr(v.s) ELSE NaN

\* what is recorded of a call: the method, how it ended, and the submission
\* whose calculateScores it ran (0 when it ran none)
ModelLog(op, kind, calcOn) == [op |-> op, status |-> 0, kind |-> kind, calcOn |-> calcOn]

\* submission.calculateScores() on a freshly loaded instance: the rows with
\* the aggregates of submission id recomputed and saved
Recalculated(id) ==
  [submissions EXCEPT ![id] = SaveChanged(@, Aggregates(@), calculateScores(getEvaluations(id)))]

\* Evaluation.beforeSave: recalculate the submission when the score changed
\* and the submission exists; the hook runs before the row is written
BeforeSave(scoreChanged, submissionId) ==
  IF scoreChanged /\ submissionId \in SubIds THEN Recalculated(submissionId) ELSE submissions

\* Evaluation.create(values): validation, the beforeSave hook, the INSERT;
\* at most max calls, with values from the given sets
EvaluationCreateOf(max, judges, rounds, drafts) ==
  /\ started < max
  /\ started' = started + 1
  /\ \E id \in SubIds, j \in judges, round \in rounds, d \in drafts :
       LET built == Build([submissionId |-> id, judgeId |-> j, round |-> round,
                           score |-> d.score, criteriaScores |-> d.criteriaScores])
           row == NewEvaluation(evaluations, built)
       IN IF ~ScoreValid(row.score)
          THEN /\ resp' = ModelLog("Evaluation.create", "error", 0)
               /\ UNCHANGED <<submissions, evaluations>>
          ELSE /\ submissions' = BeforeSave(TRUE, id)
               /\ IF ConflictRows(evaluations, row) # {}
                  THEN /\ resp' = ModelLog("Evaluation.create", "error", id)
                       /\ UNCHANGED evaluations
                  ELSE /\ resp' = ModelLog("Evaluation.create", "saved", id)
                       /\ evaluations' = evaluations \cup {row}
  /\ UNCHANGED <<snapshots, eventRows, teams, members, now, uploads, pc, req, board>>

EvaluationCreate == EvaluationCreateOf(MaxModelCalls, ModelJudges, ModelRounds, ModelDrafts)

\* evaluation.score = v; evaluation.save(): validation, the hook, the UPDATE
EvaluationSave ==
  /\ started < MaxModelCalls
  /\ started' = started + 1
  /\ \E r \in evaluations, v \in ModelScores :
       /\ submissions' = BeforeSave(v # r.score, r.submissionId)
       /\ evaluations' = (evaluations \ {r}) \cup {[r EXCEPT !.score = v]}
       /\ resp' = ModelLog("Evaluation.save", "saved",
                           IF v # r.score THEN r.submissionId ELSE 0)
  /\ UNCHANGED <<snapshots, eventRows, teams, members, now, uploads, pc, req, board>>

\* the first criterion, in order, whose score is missing or invalid; 0 if none
RECURSIVE FirstBadCriterion(_, _, _)
FirstBadCriterion(criteria, criteriaScores, i) ==
  IF i > Len(criteria) THEN 0
  ELSE LET given == {c \in criteriaScores : c[1] = criteria[i].id}
       IN IF given = {} THEN i
          ELSE LET score == ParseFloat((CHOOSE c \in given : TRUE)[2])
               IN IF score = NaN \/ score < 0 \/ score > criteria[i].maxScore
                  THEN i
                  ELSE FirstBadCriterion(criteria, criteriaScores, i + 1)

\* Object.values(criteriaScores).reduce((sum, score) => sum + parseFloat(score), 0)
RECURSIVE SumCriteria(_)
SumCriteria(criteriaScores) ==
  IF criteriaScores = {} THEN 0
  ELSE LET c == CHOOSE x \in criteriaScores : TRUE
           rest == SumCriteria(criteriaScores \ {c})
       IN IF ParseFloat(c[2]) = NaN \/ rest = NaN THEN NaN ELSE ParseFloat(c[2]) + rest

\* !this.score
ScoreMissing(score) == score = 0 \/ score = Null \/ score = Undefined \/ score = NaN

\* Evaluation.prototype.submit
EvaluationSubmit ==
  /\ started < MaxModelCalls
  /\ started' = started + 1
  /\ \E r \in evaluations :
       LET criteria == Events[submissions[r.submissionId].eventId].judgingCriteria
           score == IF ScoreMissing(r.score) THEN SumCriteria(r.criteriaScores) ELSE r.score
       IN IF r.status = "submitted" \/ FirstBadCriterion(criteria, r.criteriaScores, 1) # 0
             \/ ~ScoreValid(score)
          THEN /\ resp' = ModelLog("Evaluation.submit", "error", 0)
               /\ UNCHANGED <<submissions, evaluations>>
          ELSE /\ submissions' = BeforeSave(score # r.score, r.submissionId)
               /\ evaluations' = (evaluations \ {r})
                                   \cup {[r EXCEPT !.score = score, !.status = "submitted"]}
               /\ resp' = ModelLog("Evaluation.submit", "saved",
                                   IF score # r.score THEN r.submissionId ELSE 0)
  /\ UNCHANGED <<snapshots, eventRows, teams, members, now, uploads, pc, req, board>>

\* submission.calculateScores()
SubmissionCalculateScores ==
  /\ started < MaxModelCalls
  /\ started' = started + 1
  /\ \E id \in SubIds :
       /\ submissions' = Recalculated(id)
       /\ resp' = ModelLog("Submission.calculateScores", "saved", id)
  /\ UNCHANGED <<snapshots, eventRows, teams, members, now, evaluations, uploads, pc, req, board>>

ModelNext ==
  \/ EvaluationCreate
  \/ EvaluationSave
  \/ EvaluationSubmit
  \/ SubmissionCalculateScores

ModelSpec == EvalInit /\ [][ModelNext]_vars

(* ======================================================================= *)
(* getLeaderboard, called after some writes of evaluations                 *)
(* ======================================================================= *)
MaxBoardWrites == 3

BoardDrafts ==
  { [score |-> 60,  criteriaScores |-> {}],
    [score |-> 100, criteriaScores |-> {}] }

\* req.user.id as the handler reads it; "" when the request carries no user.
\* The handler is taken with every req it is written for: the route is
\* registered ahead of authenticate, which is what sets req.user.
BoardCallers == {"", "adm", "org", "j1"}

\* req.query.limit and req.query.offset: absent, or the string of the URL
BoardLimits == {JsUndefined, JsStr("1"), JsStr("2")}
BoardOffsets == {JsUndefined, JsStr("0"), JsStr("1"), JsStr("2"), JsStr("x")}

Digits == <<"0", "1", "2", "3", "4", "5", "6", "7", "8", "9">>

\* parseInt of a string of one character
ParseIntStr(str) ==
  IF \E i \in 1..Len(Digits) : Digits[i] = str
  THEN (CHOOSE i \in 1..Len(Digits) : Digits[i] = str) - 1
  ELSE NaN

\* parseInt(v)
ParseInt(v) == IF v.t = "number" THEN v.n ELSE IF v.t = "string" THEN ParseIntStr(v.s) ELSE NaN

\* String(v)
JsToString(v) == IF v.t = "string" THEN v.s ELSE IF v.t = "number" THEN ToString(v.n) ELSE "undefined"

\* a + b: concatenation as soon as one operand is a string
JsAdd(a, b) ==
  IF a.t = "string" \/ b.t = "string"
  THEN JsStr(JsToString(a) \o JsToString(b))
  ELSE JsNum(a.n + b.n)

\* const { limit = 10, offset = 0 } = req.query: the default of an absent key
WithDefault(v, d) == IF v.t = "undefined" THEN JsNum(d) ELSE v

\* the check that the leaderboard may be shown to the caller
LeaderboardDenied(event, u) ==
  /\ Attr(event, "isLeaderboardPublic") \in {Undefined, Null}
  /\ ~(u # "" /\ "admin" \in Roles(u))
  /\ (u = "" \/ event.organizerId # u)

\* one row of the grouped query: COUNT(evaluations.id), AVG(evaluations.score)
LeaderboardRow(id) ==
  LET evals == getEvaluations(id)
  IN [id |-> id,
      evaluationCount |-> Cardinality(evals),
      averageScore |-> IF evals = {} THEN NullAvg
                       ELSE Div(totalScore(evals), Cardinality(evals))]

\* the query without the condition on status
LeaderboardRows_AnyStatus(eventId) ==
  { LeaderboardRow(i) : i \in {k \in SubIds : submissions[k].eventId = eventId} }

\* WHERE eventId = :eventId AND status = 'submitted'
LeaderboardRows(eventId) ==
  { LeaderboardRow(i) : i \in {k \in SubIds : /\ submissions[k].eventId = eventId
                                              /\ submissions[k].status = "submitted"} }

\* the order with the nulls first, as DESC sorts without NULLS LAST
SortsBefore_NullsFirst(a, b) ==
  \/ a.averageScore.num = Null /\ b.averageScore.num # Null
  \/ /\ a.averageScore.num # Null /\ b.averageScore.num # Null
     /\ a.averageScore.num * b.averageScore.den > b.averageScore.num * a.averageScore.den
  \/ /\ a.averageScore = b.averageScore
     /\ a.evaluationCount > b.evaluationCount

\* ORDER BY "averageScore" DESC NULLS LAST, "evaluationCount" DESC: row a
\* must come before row b
SortsBefore(a, b) ==
  \/ a.averageScore.num # Null /\ b.averageScore.num = Null
  \/ /\ a.averageScore.num # Null /\ b.averageScore.num # Null
     /\ a.averageScore.num * b.averageScore.den > b.averageScore.num * a.averageScore.den
  \/ /\ a.averageScore = b.averageScore
     /\ a.evaluationCount > b.evaluationCount

\* the orders the query may return the rows in: rows the ORDER BY does not
\* tell apart come in any order
Orderings(rows) ==
  { f \in [1..Cardinality(rows) -> rows] :
      /\ \A i, j \in 1..Cardinality(rows) : i # j => f[i] # f[j]
      /\ \A i, j \in 1..Cardinality(rows) : i < j => ~SortsBefore(f[j], f[i]) }

\* OFFSET offset LIMIT limit
Page(ordered, offset, limit) ==
  LET last == IF offset + limit < Len(ordered) THEN offset + limit ELSE Len(ordered)
  IN SubSeq(ordered, offset + 1, last)

\* submissions.map((submission, index) => ({ ...submission, rank: offset + index + 1 }))
Ranked(page, offset) ==
  [i \in 1..Len(page) |->
     [id |-> page[i].id, evaluationCount |-> page[i].evaluationCount,
      averageScore |-> page[i].averageScore,
      rank |-> JsAdd(JsAdd(offset, JsNum(i - 1)), JsNum(1))]]

\* a response to the leaderboard request for eventId
BoardResponse(status, eventId) == [NoBoard EXCEPT !.status = status, !.eventId = eventId]

getLeaderboard ==
  /\ board = NoBoard
  /\ \E eventId \in EventIds \cup {"E0"}, u \in BoardCallers,
        qlimit \in BoardLimits, qoffset \in BoardOffsets :
       LET limit == WithDefault(qlimit, 10)
           offset == WithDefault(qoffset, 0)
       IN IF eventId \notin EventIds
          THEN board' = BoardResponse(404, eventId)
          ELSE IF LeaderboardDenied(Events[eventId], u)
          THEN board' = BoardResponse(403, eventId)
          ELSE IF ParseInt(limit) = NaN \/ ParseInt(offset) = NaN
          THEN board' = BoardResponse(500, eventId)
          ELSE \E ordered \in Orderings(LeaderboardRows(eventId)) :
                 board' = [status |-> 200,
                           eventId |-> eventId,
                           rows |-> Ranked(Page(ordered, ParseInt(offset), ParseInt(limit)), offset),
                           total |-> Cardinality(LeaderboardRows(eventId)),
                           limit |-> ParseInt(limit),
                           offset |-> ParseInt(offset)]
  /\ UNCHANGED <<snapshots, eventRows, teams, members, now, submissions, evaluations, uploads, pc, req, resp, started>>

\* the writes that precede the leaderboard request; the request reads only,
\* so the behaviour is followed up to its response
BoardEvaluationCreate ==
  /\ board = NoBoard
  /\ EvaluationCreateOf(MaxBoardWrites, ModelJudges, {1}, BoardDrafts)

\* three teams of E1 and one of E2 have submitted; no evaluation yet
BoardInit ==
  /\ BaseInit
  /\ submissions = <<SubmittedRow(1, "E1", "T1"), SubmittedRow(2, "E1", "T2"),
                     SubmittedRow(3, "E1", "T4"), SubmittedRow(4, "E2", "T3")>>

BoardNext ==
  \/ BoardEvaluationCreate
  \/ getLeaderboard

BoardSpec == BoardInit /\ [][BoardNext]_vars

RankNext ==
  \/ EvalNext
  \/ getLeaderboard

\* one leaderboard request among submitEvaluation requests in any interleaving
RankSpec == EvalInit /\ [][RankNext]_vars

(* ======================================================================= *)
(* getLeaderboard, called after some Submission.create calls               *)
(* ======================================================================= *)
MaxScopeCreates == 3

\* the teams the rows are created for, each in its own event
ScopeTeams == {"T1", "T2", "T3"}

\* Submission.create({eventId, teamId, ...}) without a status: the default
\* 'draft', which the beforeCreate hook turns into 'submitted' for the first
\* row of the team in the event
SubmissionCreate ==
  /\ board = NoBoard
  /\ started < MaxScopeCreates
  /\ started' = started + 1
  /\ \E teamId \in ScopeTeams :
       LET eventId == Teams[teamId].eventId
           id == Len(submissions) + 1
       IN submissions' = Append(submissions,
            [SubmittedRow(id, eventId, teamId)
               EXCEPT !.status = BeforeCreateStatus("draft", teamId, eventId)])
  /\ UNCHANGED <<snapshots, eventRows, teams, members, now, evaluations, uploads, pc, req, resp, board>>

ScopeInit ==
  /\ BaseInit
  /\ submissions = <<>>

ScopeNext ==
  \/ SubmissionCreate
  \/ getLeaderboard

ScopeSpec == ScopeInit /\ [][ScopeNext]_vars

(* ======================================================================= *)
(* Teams: createTeam, joinTeam and updateTeamMember of                     *)
(* controllers/team.controller.js and the methods of the TeamMember model, *)
(* one request at a time                                                   *)
(* ======================================================================= *)
MaxTeamCalls == 4

\* the users that create, join and leave teams
TeamUsers == {"u1", "u2"}

\* the callers of updateTeamMember: those users, an organizer, an admin
TeamCallers == TeamUsers \cup {"org", "adm"}

\* the eventId of a createTeam request; E0 is no event
TeamEventIds == {"E1", "E2", "E0"}

\* a field the request body lacks
Absent == ""

\* the status and role fields of the body of updateTeamMember
BodyStatuses == {Absent, "accepted", "left", "removed"}
BodyRoles == {Absent, "member", "admin"}

\* the values of the ENUM attributes of TeamMember
MemberStatuses == {"pending", "accepted", "rejected", "left"}
MemberRoles == {"member", "admin"}

\* what a throw of a model method, or a RangeError, leaves as the result
Thrown == -4

TeamLog(op, status, kind) == [op |-> op, status |-> status, kind |-> kind]

\* Team.findByPk / Team.findOne by invite code: paranoid, so not a deleted row
TeamFound(t) == t \in 1..Len(teams) /\ ~teams[t].deleted

\* Event.prototype.isRegistrationOpen at time t
isRegistrationOpen(event, t) ==
  DateLe(event.registrationStart, t) /\ DateLe(t, event.registrationEnd)

\* TeamMember.findOne({userId, status: 'accepted', '$Team.eventId$': eventId},
\* include Team required): an accepted record of the user in a team of the event
ExistingTeam(userId, eventId) ==
  { m \in members : /\ m.userId = userId
                    /\ m.status = "accepted"
                    /\ TeamFound(m.teamId)
                    /\ teams[m.teamId].eventId = eventId }

\* the TeamMember row of the user in the team, as a set
MemberRows(teamId, userId) == { m \in members : m.teamId = teamId /\ m.userId = userId }

\* Team.prototype.countMembers: the method calls itself without end, the
\* stack overflows and the promise is rejected with a RangeError
countMembers(team) == Thrown

\* the accepted admins of the team other than userId
OtherAdmins(teamId, userId) ==
  { m \in members : /\ m.teamId = teamId
                    /\ m.role = "admin"
                    /\ m.status = "accepted"
                    /\ m.userId # userId }

\* createTeam: the event check, the membership check, Team.create and the
\* creator's TeamMember row
createTeam ==
  /\ started < MaxTeamCalls
  /\ started' = started + 1
  /\ \E userId \in TeamUsers, eventId \in TeamEventIds :
       IF eventId \notin EventIds \/ ~isRegistrationOpen(Events[eventId], now)
       THEN /\ resp' = TeamLog("createTeam", 400, "closed")
            /\ UNCHANGED <<teams, members>>
       ELSE IF ExistingTeam(userId, eventId) # {}
       THEN /\ resp' = TeamLog("createTeam", 400, "already_in_team")
            /\ UNCHANGED <<teams, members>>
       ELSE LET id == Len(teams) + 1
            IN /\ teams' = Append(teams, [id |-> id, eventId |-> eventId, leaderId |-> userId,
                                          status |-> "active", deleted |-> FALSE])
               /\ members' = members \cup {[teamId |-> id, userId |-> userId,
                                            role |-> "admin", status |-> "accepted"]}
               /\ resp' = TeamLog("createTeam", 201, "created")
  /\ UNCHANGED <<snapshots, eventRows, now, submissions, evaluations, uploads, pc, req, board>>

\* what is recorded of a joinTeam request: the response, req.user.id and the
\* invite code of the body
JoinLog(status, kind, userId, inviteCode) ==
  [op |-> "joinTeam", status |-> status, kind |-> kind,
   userId |-> userId, inviteCode |-> inviteCode]

\* joinTeam: the team of the invite code, the registration end, the
\* membership check, the member count, the pending request, the new row
joinTeam ==
  /\ started < MaxTeamCalls
  /\ started' = started + 1
  /\ \E userId \in TeamUsers, inviteCode \in 0..Len(teams) :
       IF ~TeamFound(inviteCode)
       THEN /\ resp' = JoinLog(400, "invalid_code", userId, inviteCode)
            /\ UNCHANGED members
       ELSE LET team == teams[inviteCode]
                event == Events[team.eventId]
                memberCount == countMembers(team)
            IN IF DateGt(now, NewDate(event.registrationEnd))
               THEN /\ resp' = JoinLog(400, "closed", userId, inviteCode)
                    /\ UNCHANGED members
               ELSE IF ExistingTeam(userId, team.eventId) # {}
               THEN /\ resp' = JoinLog(400, "already_in_team", userId, inviteCode)
                    /\ UNCHANGED members
               ELSE IF memberCount = Thrown
               THEN /\ resp' = JoinLog(500, "error", userId, inviteCode)
                    /\ UNCHANGED members
               ELSE IF memberCount >= event.maxTeamSize
               THEN /\ resp' = JoinLog(400, "full", userId, inviteCode)
                    /\ UNCHANGED members
               ELSE IF \E m \in MemberRows(team.id, userId) : m.status = "pending"
               THEN /\ resp' = JoinLog(400, "already_requested", userId, inviteCode)
                    /\ UNCHANGED members
               ELSE IF MemberRows(team.id, userId) # {}
               THEN /\ resp' = JoinLog(500, "error", userId, inviteCode)
                    /\ UNCHANGED members
               ELSE /\ members' = members \cup
                         {[teamId |-> team.id, userId |-> userId, role |-> "member",
                           status |-> IF Attr(event, "requiresApproval") = TRUE
                                      THEN "pending" ELSE "accepted"]}
                    /\ resp' = JoinLog(200, "joined", userId, inviteCode)
  /\ UNCHANGED <<snapshots, eventRows, teams, now, submissions, evaluations, uploads, pc, req, board>>

\* the last-admin check of updateTeamMember: made only for an admin whose
\* body asks for status 'removed' or for a role other than 'admin'
LastAdminRefused(teamMember, status, role) ==
  /\ teamMember.role = "admin"
  /\ (status = "removed" \/ role # "admin")
  /\ OtherAdmins(teamMember.teamId, teamMember.userId) = {}

\* the values of the status ENUM of the Team model
TeamStatuses == {"active", "disqualified", "withdrawn"}

\* team.save() validates the status against the ENUM
TeamStatusValid(status) == status \in TeamStatuses

\* the row after `if (status) teamMember.status = status; if (role) ...`
UpdatedMember(teamMember, status, role) ==
  [teamMember EXCEPT !.status = IF status # Absent THEN status ELSE @,
                     !.role = IF role # Absent THEN role ELSE @]

\* updateTeamMember: the team, the requester's authority, the member row,
\* the self-modification rule, the last-admin check, the save
updateTeamMember ==
  /\ started < MaxTeamCalls
  /\ started' = started + 1
  /\ \E caller \in TeamCallers, teamId \in 0..Len(teams), userId \in TeamUsers,
        status \in BodyStatuses, role \in BodyRoles :
       IF ~TeamFound(teamId)
       THEN /\ resp' = TeamLog("updateTeamMember", 404, "no_team")
            /\ UNCHANGED <<teams, members>>
       ELSE LET team == teams[teamId]
                isLeader == team.leaderId = caller
                isAdmin == "admin" \in Roles(caller)
                isEventOrganizer == Events[team.eventId].organizerId = caller
            IN IF ~isLeader /\ ~isAdmin /\ ~isEventOrganizer
               THEN /\ resp' = TeamLog("updateTeamMember", 403, "forbidden")
                    /\ UNCHANGED <<teams, members>>
               ELSE IF MemberRows(teamId, userId) = {}
               THEN /\ resp' = TeamLog("updateTeamMember", 404, "no_member")
                    /\ UNCHANGED <<teams, members>>
               ELSE LET teamMember == CHOOSE m \in MemberRows(teamId, userId) : TRUE
                        updated == UpdatedMember(teamMember, status, role)
                    IN IF userId = caller /\ ~isAdmin /\ ~isEventOrganizer
                       THEN /\ resp' = TeamLog("updateTeamMember", 403, "own_record")
                            /\ UNCHANGED <<teams, members>>
                       ELSE IF LastAdminRefused(teamMember, status, role)
                       THEN /\ resp' = TeamLog("updateTeamMember", 400, "last_admin")
                            /\ UNCHANGED <<teams, members>>
                       ELSE IF updated.status \notin MemberStatuses \/ updated.role \notin MemberRoles
                       THEN /\ resp' = TeamLog("updateTeamMember", 500, "error")
                            /\ UNCHANGED <<teams, members>>
                       ELSE /\ members' = (members \ {teamMember}) \cup {updated}
                            /\ IF status = "removed" /\ team.leaderId = userId
                               THEN IF OtherAdmins(teamId, userId) # {}
                                    THEN /\ \E newLeader \in OtherAdmins(teamId, userId) :
                                              teams' = [teams EXCEPT ![teamId].leaderId = newLeader.userId]
                                         /\ resp' = TeamLog("updateTeamMember", 200, "updated")
                                    ELSE IF TeamStatusValid("inactive")
                                    THEN /\ teams' = [teams EXCEPT ![teamId].status = "inactive"]
                                         /\ resp' = TeamLog("updateTeamMember", 200, "updated")
                                    ELSE /\ resp' = TeamLog("updateTeamMember", 500, "error")
                                         /\ UNCHANGED teams
                               ELSE /\ resp' = TeamLog("updateTeamMember", 200, "updated")
                                    /\ UNCHANGED teams
  /\ UNCHANGED <<snapshots, eventRows, now, submissions, evaluations, uploads, pc, req, board>>

\* TeamMember.create({teamId, userId, invitedById}): an invitation, with the
\* model's defaults role 'member' and status 'pending'; (teamId, userId) is
\* unique
TeamMemberCreate ==
  /\ started < MaxTeamCalls
  /\ started' = started + 1
  /\ \E teamId \in 1..Len(teams), userId \in TeamUsers :
       IF MemberRows(teamId, userId) # {}
       THEN /\ resp' = TeamLog("TeamMember.create", 0, "error")
            /\ UNCHANGED members
       ELSE /\ members' = members \cup {[teamId |-> teamId, userId |-> userId,
                                         role |-> "member", status |-> "pending"]}
            /\ resp' = TeamLog("TeamMember.create", 0, "saved")
  /\ UNCHANGED <<snapshots, eventRows, teams, now, submissions, evaluations, uploads, pc, req, board>>

\* the team that teamMember.getTeam({include: members}) loads: the members
\* are included, the event is not
LoadedTeam(teamId) ==
  [id |-> teamId, eventId |-> teams[teamId].eventId,
   members |-> { m \in members : m.teamId = teamId /\ m.status = "accepted" }]

\* TeamMember.prototype.acceptInvitation: the row after the call, or Thrown
acceptInvitationResult(teamMember) ==
  IF teamMember.status # "pending" THEN Thrown
  ELSE IF ~TeamFound(teamMember.teamId) THEN Thrown
  ELSE LET team == LoadedTeam(teamMember.teamId)
           event == Attr(team, "event")
       IN IF event = Undefined THEN Thrown
          ELSE IF Cardinality(team.members) >= event.maxTeamSize THEN Thrown
          ELSE IF ExistingTeam(teamMember.userId, team.eventId) # {} THEN Thrown
          ELSE [teamMember EXCEPT !.status = "accepted"]

acceptInvitation ==
  /\ started < MaxTeamCalls
  /\ started' = started + 1
  /\ \E teamMember \in members :
       LET result == acceptInvitationResult(teamMember)
       IN IF result = Thrown
          THEN /\ resp' = TeamLog("acceptInvitation", 0, "error")
               /\ UNCHANGED members
          ELSE /\ members' = (members \ {teamMember}) \cup {result}
               /\ resp' = TeamLog("acceptInvitation", 0, "accepted")
  /\ UNCHANGED <<snapshots, eventRows, teams, now, submissions, evaluations, uploads, pc, req, board>>

\* team.countSubmissions()
countSubmissions(teamId) ==
  Cardinality({ i \in 1..Len(submissions) : submissions[i].teamId = teamId })

\* TeamMember.prototype.leaveTeam: a leader hands the team to another
\* accepted admin, or disbands a team without submissions and keeps the
\* record as it is; any other member's record becomes 'left'
leaveTeam ==
  /\ started < MaxTeamCalls
  /\ started' = started + 1
  /\ \E teamMember \in members :
       IF teamMember.status # "accepted" \/ ~TeamFound(teamMember.teamId)
       THEN /\ resp' = TeamLog("leaveTeam", 0, "error")
            /\ UNCHANGED <<teams, members>>
       ELSE LET team == teams[teamMember.teamId]
                left == [teamMember EXCEPT !.status = "left"]
            IN IF team.leaderId # teamMember.userId
               THEN /\ members' = (members \ {teamMember}) \cup {left}
                    /\ resp' = TeamLog("leaveTeam", 0, "left")
                    /\ UNCHANGED teams
               ELSE IF OtherAdmins(team.id, teamMember.userId) # {}
               THEN /\ \E newLeader \in OtherAdmins(team.id, teamMember.userId) :
                         teams' = [teams EXCEPT ![team.id].leaderId = newLeader.userId]
                    /\ members' = (members \ {teamMember}) \cup {left}
                    /\ resp' = TeamLog("leaveTeam", 0, "left")
               ELSE IF countSubmissions(team.id) > 0
               THEN /\ resp' = TeamLog("leaveTeam", 0, "error")
                    /\ UNCHANGED <<teams, members>>
               ELSE /\ teams' = [teams EXCEPT ![team.id].deleted = TRUE]
                    /\ resp' = TeamLog("leaveTeam", 0, "disbanded")
                    /\ UNCHANGED members
  /\ UNCHANGED <<snapshots, eventRows, now, submissions, evaluations, uploads, pc, req, board>>

TeamInit ==
  /\ BaseInit
  /\ submissions = <<>>

TeamNext ==
  \/ createTeam
  \/ joinTeam
  \/ updateTeamMember
  \/ TeamMemberCreate
  \/ acceptInvitation
  \/ leaveTeam

TeamSpec == TeamInit /\ [][TeamNext]_vars

(* ======================================================================= *)
(* Events: createEvent, updateEvent and publishEvent, one request at a     *)
(* time, with the validators of the Event model                            *)
(* ======================================================================= *)
MaxEventCalls == 3

\* the callers the routes let through authorize(['admin', 'organizer'])
EventCallers == {"org", "org2", "adm"}

\* the instants a date of a request body may name
EventDates == 1..4

\* the attributes of an Event row that updateEvent may not change once the
\* event is published
restrictedFields == <<"organizerId", "slug", "isPublished", "status">>

\* the values of the ENUM attribute status of Event
EventStatuses == {"draft", "upcoming", "ongoing", "completed", "cancelled"}

\* the bodies of updateEvent: one date, both event dates, or a restricted field
EventUpdates ==
  { [startDate |-> d] : d \in EventDates } \cup
  { [endDate |-> d] : d \in EventDates } \cup
  { [registrationStart |-> d] : d \in EventDates } \cup
  { [registrationEnd |-> d] : d \in EventDates } \cup
  { [submissionDeadline |-> d] : d \in EventDates \cup {Null} } \cup
  { [startDate |-> 2, endDate |-> 3] } \cup
  { [isPublished |-> b] : b \in BOOLEAN } \cup
  { [slug |-> s] : s \in {"", "hack", "other"} } \cup
  { [status |-> s] : s \in {"", "upcoming", "cancelled"} } \cup
  { [organizerId |-> u] : u \in {"org", "org2"} }

EventLog(op, status, kind) == [op |-> op, status |-> status, kind |-> kind]

\* the validators the model attaches to the attribute `field`, run on the
\* instance `event`: isAfterStartDate on endDate, isAfterRegistrationStart and
\* isBeforeEventStart on registrationEnd, isBeforeEndDate on
\* submissionDeadline, the ENUM of status, allowNull false on the dates
FieldValid(event, field) ==
  IF field = "endDate"
  THEN event.endDate \notin {Null, Undefined} /\ ~(event.endDate <= event.startDate)
  ELSE IF field = "registrationEnd"
  THEN /\ event.registrationEnd \notin {Null, Undefined}
       /\ ~(event.registrationEnd <= event.registrationStart)
       /\ ~(event.registrationEnd >= event.startDate)
  ELSE IF field = "submissionDeadline"
  THEN event.submissionDeadline = Null \/ ~(event.submissionDeadline > event.endDate)
  ELSE IF field = "startDate" THEN event.startDate \notin {Null, Undefined}
  ELSE IF field = "registrationStart" THEN event.registrationStart \notin {Null, Undefined}
  ELSE IF field = "status" THEN event.status \in EventStatuses
  ELSE TRUE

\* instance.validate({fields}): the validators of the attributes that are
\* not among the saved fields are skipped
EventValid(event, fields) == \A field \in fields : FieldValid(event, field)

\* a truthy value of the body for the field
Truthy(field, value) == IF field = "isPublished" THEN value = TRUE ELSE value # ""

\* the restricted field, if any, for which updateEvent refuses the body
RefusedField(event, updates) ==
  { i \in 1..Len(restrictedFields) :
      /\ restrictedFields[i] \in DOMAIN updates
      /\ Truthy(restrictedFields[i], updates[restrictedFields[i]])
      /\ updates[restrictedFields[i]] # event[restrictedFields[i]] }

\* createEvent: Event.create with the dates of the body, the slug of the
\* title, the caller as organizer, status 'draft' and isPublished false
createEvent ==
  /\ started < MaxEventCalls
  /\ started' = started + 1
  /\ \E caller \in EventCallers, startDate \in EventDates, endDate \in EventDates,
        registrationStart \in EventDates, registrationEnd \in EventDates,
        submissionDeadline \in EventDates \cup {Undefined} :
       LET event == [id |-> Len(eventRows) + 1, organizerId |-> caller, slug |-> "hack",
                     startDate |-> startDate, endDate |-> endDate,
                     registrationStart |-> registrationStart,
                     registrationEnd |-> registrationEnd,
                     submissionDeadline |-> IF submissionDeadline = Undefined
                                            THEN Null ELSE submissionDeadline,
                     status |-> "draft", isPublished |-> FALSE]
       IN IF ~EventValid(event, DOMAIN event)
          THEN /\ resp' = EventLog("createEvent", 500, "error")
               /\ UNCHANGED eventRows
          ELSE IF \E i \in 1..Len(eventRows) : eventRows[i].slug = event.slug
          THEN /\ resp' = EventLog("createEvent", 400, "exists")
               /\ UNCHANGED eventRows
          ELSE /\ eventRows' = Append(eventRows, event)
               /\ resp' = EventLog("createEvent", 201, "created")
  /\ UNCHANGED <<snapshots, teams, members, now, submissions, evaluations, uploads, pc, req, board>>

\* updateEvent: the event, the caller's authority, the restricted fields of
\* a published event, event.update(updates)
updateEvent ==
  /\ started < MaxEventCalls
  /\ started' = started + 1
  /\ \E caller \in EventCallers, id \in 0..Len(eventRows), updates \in EventUpdates :
       IF id = 0
       THEN /\ resp' = EventLog("updateEvent", 404, "not_found")
            /\ UNCHANGED eventRows
       ELSE LET event == eventRows[id]
                updated == Merge(event, updates)
            IN IF event.organizerId # caller /\ "admin" \notin Roles(caller)
               THEN /\ resp' = EventLog("updateEvent", 403, "forbidden")
                    /\ UNCHANGED eventRows
               ELSE IF event.isPublished /\ RefusedField(event, updates) # {}
               THEN /\ resp' = EventLog("updateEvent", 400, "restricted")
                    /\ UNCHANGED eventRows
               ELSE IF ~EventValid(updated, DOMAIN updates)
                       \/ (\E i \in 1..Len(eventRows) : i # id /\ eventRows[i].slug = updated.slug)
               THEN /\ resp' = EventLog("updateEvent", 500, "error")
                    /\ UNCHANGED eventRows
               ELSE /\ eventRows' = [eventRows EXCEPT ![id] = updated]
                    /\ resp' = EventLog("updateEvent", 200, "updated")
  /\ UNCHANGED <<snapshots, teams, members, now, submissions, evaluations, uploads, pc, req, board>>

\* publishEvent: the event, the caller's authority, the required fields (no
\* stored row lacks one), event.update({isPublished: true, publishedAt,
\* status: 'upcoming'})
publishEvent ==
  /\ started < MaxEventCalls
  /\ started' = started + 1
  /\ \E caller \in EventCallers, id \in 1..Len(eventRows) :
       LET event == eventRows[id]
       IN IF event.organizerId # caller /\ "admin" \notin Roles(caller)
          THEN /\ resp' = EventLog("publishEvent", 403, "forbidden")
               /\ UNCHANGED eventRows
          ELSE /\ eventRows' = [eventRows EXCEPT ![id].isPublished = TRUE,
                                                 ![id].status = "upcoming"]
               /\ resp' = EventLog("publishEvent", 200, "published")
  /\ UNCHANGED <<snapshots, teams, members, now, submissions, evaluations, uploads, pc, req, board>>

EventInit ==
  /\ BaseInit
  /\ submissions = <<>>

EventNext ==
  \/ createEvent
  \/ updateEvent
  \/ publishEvent

EventSpec == EventInit /\ [][EventNext]_vars

(* ======================================================================= *)
(* Properties of createSubmission                                          *)
(* ======================================================================= *)

\* a request that arrived after its team had submitted was answered by the
\* already-submitted branch when it came from an accepted member in the open
\* window, and by no success in any case
C1_Rejected ==
  (resp.op = "createSubmission" /\ resp.existedAtStart)
    => /\ resp.status # 201
       /\ resp.created = 0
       /\ (resp.member /\ resp.openAt)
            => (resp.kind = "already_submitted" /\ resp.status = 400)

\* no step of such a request changes the Submission rows
C1_NoRow ==
  (\E p \in Procs : /\ req[p].op = "createSubmission"
                    /\ req[p].existedAtStart
                    /\ pc'[p] # pc[p])
    => submissions' = submissions

NonDraft(teamId, eventId) ==
  {i \in SubIds : /\ submissions[i].teamId = teamId
                  /\ submissions[i].eventId = eventId
                  /\ submissions[i].status # "draft"}

\* C2: in every reachable state, whatever the interleaving of createSubmission
\* requests, a team has at most one non-draft Submission per event.
C2_AtMostOneNonDraft ==
  \A t \in TeamIds, e \in EventIds : Cardinality(NonDraft(t, e)) <= 1

\* C11 as stated: every createSubmission of a caller without an accepted
\* TeamMember record in the named team is answered as forbidden.
C11_AlwaysForbidden ==
  (resp.op = "createSubmission" /\ resp.standing # "accepted")
    => resp.status = 403

\* no response reports a Submission created for a caller without an accepted
\* record in the team
C11_NoRowForNonMember ==
  (resp.op = "createSubmission" /\ resp.standing # "accepted")
    => (resp.status # 201 /\ resp.created = 0)

\* the membership check of a request: a caller without an accepted record in
\* the team is answered 403 and no row is written
C11_Step ==
  \A p \in Procs :
    (pc[p] = "cs_team" /\ pc'[p] # "cs_team")
      => LET standing == IF pc'[p] = "idle" THEN resp'.standing ELSE req'[p].standing
         IN standing # "accepted"
              => /\ pc'[p] = "idle"
                 /\ resp'.status = 403
                 /\ resp'.kind = "forbidden"
                 /\ submissions' = submissions

\* C11 (amended): a createSubmission of a caller without an accepted
\* TeamMember record in the named team creates no Submission, and when the
\* event exists and its window is open the request is answered as forbidden;
\* a request for a missing or closed event is answered as closed first.
C11_Theorem == []C11_NoRowForNonMember /\ [][C11_Step]_vars

\* an accepted member of another team of the same event has been answered 403
C11_Witness ==
  /\ resp.op = "createSubmission"
  /\ resp.status = 403
  /\ resp.standing = "other_team"

\* time t is later than the event's submissionDeadline or endDate, or the
\* event has no submissionDeadline
WindowClosed(eventId, t) ==
  \/ Events[eventId].submissionDeadline = Null
  \/ t > Events[eventId].submissionDeadline
  \/ t > Events[eventId].endDate

\* C13 as stated: no Submission row is inserted at a time later than the
\* event's submissionDeadline or endDate.
C13_NeverCreatedLate ==
  [][Len(submissions') > Len(submissions)
       => ~WindowClosed(submissions'[Len(submissions')].eventId, now)]_vars

\* the window check of a request for an existing event, made at time now: when
\* the window is closed the request is answered as closed and writes nothing,
\* and only a request that passed the check in an open window inserts a row
C13_Step ==
  /\ \A p \in Procs :
       (pc[p] = "cs_event" /\ pc'[p] # "cs_event" /\ req[p].eventId \in EventIds)
         => IF WindowClosed(req[p].eventId, now)
            THEN /\ pc'[p] = "idle"
                 /\ resp'.status = 400
                 /\ resp'.kind = "closed"
                 /\ submissions' = submissions
            ELSE pc'[p] = "cs_team"
  /\ Len(submissions') > Len(submissions)
       => \E p \in Procs : /\ pc[p] = "cs_create"
                           /\ pc'[p] = "idle"
                           /\ req[p].openAt
                           /\ req[p].eventId \in EventIds
                           /\ Events[req[p].eventId].submissionDeadline # Null
  /\ \A p \in Procs :
       (req'[p].op = "createSubmission" /\ req'[p].openAt)
         => \/ (req[p].op = "createSubmission" /\ req[p].openAt)
            \/ (pc[p] = "cs_event" /\ ~WindowClosed(req[p].eventId, now))

\* C13 (amended): a createSubmission whose window check is made at a time
\* later than the event's submissionDeadline or endDate, or for an event without
\* a submissionDeadline, is rejected as closed and creates no Submission; a
\* request checked inside the window may insert its row after the deadline.
C13_Theorem == [][C13_Step]_vars

\* a team that submitted in the window has had a later request for the same
\* event rejected as closed
C13_Witness ==
  /\ resp.op = "createSubmission"
  /\ resp.kind = "closed"
  /\ resp.existedAtStart
  /\ Len(submissions) >= 1

\* C14: every Submission created by createSubmission references a team that
\* belongs to the Submission's event.
C14_TeamOfEvent ==
  \A i \in SubIds : Teams[submissions[i].teamId].eventId = submissions[i].eventId

\* a failed upload ends the request with a failure and no row; a request with
\* a file comes to Submission.create only from its own successful upload; the
\* row it inserts carries the url of that upload and the type and size of the
\* file
C18_Step ==
  \A p \in Procs :
    /\ (pc[p] = "cs_upload" /\ pc'[p] # "cs_upload" /\ uploads' = uploads)
         => /\ pc'[p] = "idle"
            /\ resp'.status = 500
            /\ submissions' = submissions
    /\ (pc[p] # "cs_create" /\ pc'[p] = "cs_create" /\ req'[p].file.present)
         => /\ pc[p] = "cs_upload"
            /\ uploads' = uploads + 1
            /\ req'[p].fileUrl = uploads'
    /\ (pc[p] = "cs_create" /\ pc'[p] = "idle" /\ req[p].file.present
          /\ Len(submissions') > Len(submissions))
         => LET row == submissions'[Len(submissions')]
            IN /\ row.fileUrl = req[p].fileUrl
               /\ row.fileUrl \in 1..uploads
               /\ row.fileType = req[p].file.mimetype
               /\ row.fileSize = req[p].file.size

\* C18: when the upload of the file of a createSubmission fails, no Submission
\* is created and the request reports failure; a Submission created from a
\* request with a file carries the fileUrl, fileType and fileSize of that upload.
C18_Theorem == [][C18_Step]_vars

\* a Submission has been created from a request with a file
C18_Witness ==
  /\ resp.op = "createSubmission"
  /\ resp.status = 201
  /\ submissions[resp.created].fileUrl # Null
  /\ submissions[resp.created].fileType = AFile.mimetype
  /\ submissions[resp.created].fileSize = AFile.size

\* the step of process p sends the rejection of a check of createSubmission
\* (event and window, membership, existing submission, the validation of
\* Submission.create) or of submitEvaluation (permission, window, the
\* validation of Evaluation.upsert)
RejectedByCheck(p) ==
  /\ pc'[p] = "idle"
  /\ \/ pc[p] \in {"cs_event", "cs_team", "cs_existing", "se_load"}
     \/ pc[p] \in {"cs_create", "se_upsert"} /\ resp'.status = 500

\* C25: a createSubmission or submitEvaluation request that a validation,
\* time-window, membership or permission check rejects leaves the Submission
\* rows, the Evaluation rows and the stored aggregates as they were, and has
\* performed no storage upload
C25_RejectedWritesNothing ==
  [][\A p \in Procs :
       RejectedByCheck(p)
         => /\ submissions' = submissions
            /\ evaluations' = evaluations
            /\ uploads' = uploads
            /\ (req[p].op = "createSubmission" => req[p].fileUrl = Null)]_vars

(* ======================================================================= *)
(* Properties of submitEvaluation                                          *)
(* ======================================================================= *)

\* request p sends its success response in this step
SeSucceeds(p) ==
  /\ req[p].op = "submitEvaluation"
  /\ pc[p] # "idle"
  /\ pc'[p] = "idle"
  /\ resp'.status \in {200, 201}

\* the rows of judge userId on submission id in a round
RowsOf(rows, id, userId, round) ==
  {r \in rows : r.submissionId = id /\ r.judgeId = userId /\ r.round = round}

\* C3: when a judge's second submitEvaluation on a submission succeeds, exactly
\* one Evaluation row exists for (submission, judge, round) and its score,
\* feedback and criteria scores are those of the second call.
C3_SecondCallWins ==
  [][\A p \in Procs :
       (SeSucceeds(p) /\ ~req[p].created)
         => LET rows == RowsOf(evaluations', req[p].id, req[p].userId, 1)
            IN /\ Cardinality(rows) = 1
               /\ \A r \in rows : /\ r.score = req[p].payload.score
                                  /\ r.feedback = req[p].payload.feedback
                                  /\ r.criteriaScores = req[p].payload.criteria]_vars

\* the sum of the scores of a set of Evaluation rows
RECURSIVE ScoreSum(_)
ScoreSum(rows) ==
  IF rows = {} THEN 0
  ELSE LET r == CHOOSE x \in rows : TRUE IN r.score + ScoreSum(rows \ {r})

\* avg is the mean of the scores of rows, and n their number
IsMeanAndCount(avg, n, rows) ==
  /\ n = Cardinality(rows)
  /\ IF rows = {} THEN avg = NullAvg
     ELSE /\ avg.num # Null
          /\ avg.num * Cardinality(rows) = ScoreSum(rows) * avg.den

\* the stored aggregates of submission id are the mean and count of its rows
Fresh(subs, rows, id) ==
  IsMeanAndCount(subs[id].averageScore, subs[id].totalEvaluations,
                 {r \in rows : r.submissionId = id})

\* the step that sends a success response is the step of this.save(), and it
\* leaves the aggregates equal to the mean and count of the rows, the row of
\* the request among them
C5_Step ==
  \A p \in Procs :
    SeSucceeds(p)
      => /\ pc[p] = "se_calc_save"
         /\ Fresh(submissions', evaluations', req[p].id)
         /\ \E r \in RowsOf(evaluations', req[p].id, req[p].userId, 1) :
              r.score = req[p].payload.score

\* C5: with submitEvaluation requests running one at a time, the success
\* response is sent only once calculateScores has saved the Submission, and the
\* stored averageScore and totalEvaluations then equal the mean and count of
\* all its Evaluation rows, the one just written included.
C5_Theorem == [][C5_Step]_vars

\* a second judge's evaluation has been answered and two rows are counted
C5_Witness ==
  /\ resp.op = "submitEvaluation"
  /\ resp.status = 201
  /\ submissions[1].totalEvaluations = 2
  /\ \A p \in Procs : pc[p] = "idle"

\* every criterion of the event has a numeric score in [0, maxScore]
CriteriaInRange(judgingCriteria, criteria) ==
  \A i \in 1..Len(judgingCriteria) :
    \E c \in criteria : /\ c[1] = judgingCriteria[i].id
                        /\ c[2].t = "number"
                        /\ c[2].n >= 0
                        /\ c[2].n <= judgingCriteria[i].maxScore

\* C7 (rejection part): when the event defines judgingCriteria, no
\* submitEvaluation whose criteria scores miss a criterion or hold a value
\* outside [0, maxScore] gets past validation to write an Evaluation.
C7_InvalidCriteriaRejected ==
  [][\A p \in Procs :
       (pc[p] = "se_upsert" /\ pc'[p] = "se_calc_read"
          /\ Len(Events[submissions[req[p].id].eventId].judgingCriteria) > 0)
         => CriteriaInRange(Events[submissions[req[p].id].eventId].judgingCriteria,
                            req'[p].payload.criteria)]_vars

\* The Event model stores no judging end.  Whatever instant before the last
\* one of the clock it is taken to be, the last instant lies after it.
AfterAnyJudgingEnd(t) == t > MaxTime - 1

\* C10 (rejection part): a submitEvaluation request of a caller who is not a
\* platform admin, made after the event's judging end, does not pass the
\* judging-window check.
C10_ClosedForNonAdmin ==
  [][\A p \in Procs :
       (pc[p] = "se_load" /\ pc'[p] = "se_upsert" /\ AfterAnyJudgingEnd(now))
         => "admin" \in Roles(req'[p].userId)]_vars

\* the caller is an accepted judge of the event, its organizer, or an admin
Authorized(userId, eventId) ==
  \/ \E j \in EventJudges : j.userId = userId /\ j.eventId = eventId /\ j.status = "accepted"
  \/ Events[eventId].organizerId = userId
  \/ "admin" \in Roles(userId)

\* the permission check of a request on an existing submission: a caller who
\* passes it is authorized, and a caller who is not is answered 403; a success
\* response goes to an authorized caller
C12_Step ==
  \A p \in Procs :
    /\ (pc[p] = "se_load" /\ pc'[p] = "se_upsert")
         => Authorized(req'[p].userId, submissions[req[p].id].eventId)
    /\ (pc[p] = "se_load" /\ pc'[p] = "idle" /\ req[p].id \in SubIds)
         => (~Authorized(resp'.userId, submissions[req[p].id].eventId)
               => (resp'.status = 403 /\ resp'.kind = "forbidden"
                     /\ evaluations' = evaluations))
    /\ SeSucceeds(p) => Authorized(req[p].userId, submissions[req[p].id].eventId)

\* C12: submitEvaluation succeeds only for an accepted judge of the
\* submission's event, that event's organizer or a platform admin; every other
\* caller, a pending or rejected judge and an accepted judge of another event
\* included, is rejected as forbidden.
C12_Theorem == [][C12_Step]_vars

\* a judge who is pending in the submission's event and accepted in another
\* event has been answered 403
C12_Witness ==
  /\ resp.op = "submitEvaluation"
  /\ resp.kind = "forbidden"
  /\ resp.userId = "j3"
  /\ \E j \in EventJudges : j.userId = "j3" /\ j.eventId = "E2" /\ j.status = "accepted"

\* the sum of the values of the criteria scores
RECURSIVE SumOfValues(_)
SumOfValues(criteria) ==
  IF criteria = {} THEN 0
  ELSE LET c == CHOOSE x \in criteria : TRUE
       IN c[2].n + SumOfValues(criteria \ {c})

\* the body a submitEvaluation request was found to carry by the upsert step
\* of p: kept in the request when the upsert went through, in the response
\* when it failed
BodyAtUpsert(p) ==
  IF pc'[p] = "se_calc_read" THEN req'[p].payload ELSE resp'.payload

\* C20: every evaluation submitted without a score is stored with the sum of
\* its criteriaScores values as its score.
C20_ScoreIsSumOfCriteria ==
  [][\A p \in Procs :
       (pc[p] = "se_upsert" /\ pc'[p] # "se_upsert" /\ BodyAtUpsert(p).score = Undefined)
         => /\ pc'[p] = "se_calc_read"
            /\ \E r \in evaluations' :
                 /\ r.submissionId = req[p].id
                 /\ r.judgeId = req[p].userId
                 /\ r.score = SumOfValues(BodyAtUpsert(p).criteria)]_vars

\* C22: the (averageScore, totalEvaluations) pair stored on a Submission is
\* at every moment the (mean, count) its Evaluation rows had at one point of
\* the execution: the pair of no evaluations, or a pair the rows had after an
\* upsert.
C22_OneSnapshot ==
  \A id \in SubIds :
    \/ Aggregates(submissions[id]) = NoAggregates
    \/ [id |-> id, agg |-> Aggregates(submissions[id])] \in snapshots

\* C23: once every submitEvaluation request has completed, the stored
\* averageScore and totalEvaluations of each Submission are the mean and count
\* of all its Evaluation rows.
C23_FreshWhenQuiet ==
  (\A p \in Procs : pc[p] = "idle")
    => \A id \in SubIds : Fresh(submissions, evaluations, id)

\* the request of process p ends with the 500 of a failed calculateScores
SeCalcFails(p) ==
  /\ pc[p] \in {"se_calc_read", "se_calc_save"}
  /\ pc'[p] = "idle"
  /\ resp'.status = 500

\* C24: when calculateScores fails after the upsert of a submitEvaluation
\* request has succeeded, the request is answered with a failure, the
\* Evaluation row the request wrote is still stored, and the Submission keeps
\* the averageScore and totalEvaluations it had when the request began
C24_Step ==
  \A p \in Procs :
    SeCalcFails(p)
      => /\ resp'.op = "submitEvaluation"
         /\ \E r \in evaluations' :
              /\ r.submissionId = req[p].id
              /\ r.judgeId = req[p].userId
              /\ r.score = Build(UpsertValues(req[p].id, req[p].userId, req[p].payload)).score
         /\ Aggregates(submissions'[req[p].id]) = req[p].inst

C24_Theorem == [][C24_Step]_vars

\* a request was answered 500 by a failed calculateScores; its row is stored
\* and the Submission still counts no evaluation
C24_Witness ==
  /\ resp.op = "submitEvaluation"
  /\ resp.status = 500
  /\ "failed" \in DOMAIN resp
  /\ \E r \in evaluations : r.submissionId = 1 /\ r.judgeId = resp.userId
  /\ Aggregates(submissions[1]) = NoAggregates

\* the float num/den lies in [0, 100]
InScoreRange(avg) == avg.num >= 0 /\ avg.num <= 100 * avg.den

\* C29: every Submission has averageScore null exactly when totalEvaluations
\* is 0, and an averageScore that is not null lies in [0, 100]
C29_Theorem ==
  \A id \in SubIds :
    /\ (submissions[id].averageScore.num = Null) <=> (submissions[id].totalEvaluations = 0)
    /\ submissions[id].averageScore.num # Null => InScoreRange(submissions[id].averageScore)

\* two requests have saved: the Submission counts two evaluations and stores
\* a mean that is not a whole number of either score
C29_Witness ==
  /\ \A p \in Procs : pc[p] = "idle"
  /\ submissions[1].totalEvaluations = 2
  /\ submissions[1].averageScore = Div(160, 2)

(* ======================================================================= *)
(* Properties of calculateScores and of the Evaluation hooks               *)
(* ======================================================================= *)

\* a step in which a model method ran calculateScores on a submission leaves
\* that submission with the mean and count of the rows calculateScores read
C4_Step ==
  (started' # started /\ resp'.calcOn # 0)
    => Fresh(submissions', evaluations, resp'.calcOn)

\* C4: calculateScores sets averageScore to the arithmetic mean of the scores
\* of all Evaluations the Submission holds (every judge, every round) and
\* totalEvaluations to their number, and to null and 0 when it holds none.
C4_Theorem == [][C4_Step]_vars

\* calculateScores has run over two evaluations of different rounds
C4_Witness ==
  /\ resp.op = "Submission.calculateScores"
  /\ submissions[resp.calcOn].totalEvaluations = 2
  /\ \E r1, r2 \in getEvaluations(resp.calcOn) : r1.round # r2.round /\ r1.score # r2.score

\* C6: after every completed Evaluation write (a creation, or a score change
\* saved through Evaluation.save or Evaluation.submit) the Submission's stored
\* averageScore and totalEvaluations are the mean and count of its
\* Evaluations, the written value included.
C6_AggregatesFresh ==
  \A id \in SubIds : Fresh(submissions, evaluations, id)

(* ======================================================================= *)
(* Properties of getLeaderboard                                            *)
(* ======================================================================= *)

\* the average of a listed row is null
NullAverage(row) == row.averageScore.num = Null

\* the average of row a is at least that of row b, neither being null
AverageAtLeast(a, b) ==
  a.averageScore.num * b.averageScore.den >= b.averageScore.num * a.averageScore.den

\* C8: a leaderboard lists every Submission with a non-null average before
\* every Submission with a null average, the non-null averages in descending
\* order, and of two Submissions with the same average the one with more
\* evaluations first.
C8_Ordered ==
  board.status = 200 =>
    \A i, j \in 1..Len(board.rows) :
      i < j =>
        /\ NullAverage(board.rows[i]) => NullAverage(board.rows[j])
        /\ (~NullAverage(board.rows[i]) /\ ~NullAverage(board.rows[j]))
             => AverageAtLeast(board.rows[i], board.rows[j])
        /\ board.rows[i].averageScore = board.rows[j].averageScore
             => board.rows[i].evaluationCount >= board.rows[j].evaluationCount

\* a leaderboard of three Submissions: two with the same average and different
\* numbers of evaluations, and one without evaluations
C8_Witness ==
  /\ board.status = 200
  /\ Len(board.rows) = 3
  /\ ~NullAverage(board.rows[1])
  /\ board.rows[1].averageScore = board.rows[2].averageScore
  /\ board.rows[1].evaluationCount > board.rows[2].evaluationCount
  /\ NullAverage(board.rows[3])

\* C9: the i-th entry (from 0) of a returned page carries the integer rank
\* offset + i + 1, whatever limit and offset were passed.
C9_IntegerRank ==
  board.status = 200 =>
    \A i \in 1..Len(board.rows) : board.rows[i].rank = JsNum(board.offset + (i - 1) + 1)

\* the Submissions of the event with status submitted
InScope(eventId) ==
  { k \in SubIds : submissions[k].eventId = eventId /\ submissions[k].status = "submitted" }

\* C19: a leaderboard answered for an event lists only Submissions of that
\* event whose status is submitted, and its pagination total is the number of
\* those Submissions
C19_ScopeAndTotal ==
  board.status = 200 =>
    /\ \A i \in 1..Len(board.rows) : board.rows[i].id \in InScope(board.eventId)
    /\ board.total = Cardinality(InScope(board.eventId))

\* a leaderboard with a row, answered while the event also has a draft and
\* another event has a submitted Submission
C19_Witness ==
  /\ board.status = 200
  /\ Len(board.rows) >= 1
  /\ \E k \in SubIds : submissions[k].eventId = board.eventId /\ submissions[k].status = "draft"
  /\ \E k \in SubIds : submissions[k].eventId # board.eventId /\ submissions[k].status = "submitted"

\* C26: for every submitted Submission of the event, the average score and the
\* evaluation count that getLeaderboard reports and ranks by are the stored
\* averageScore and totalEvaluations of that Submission; stated for the
\* requests that are answered while no submitEvaluation is in progress
C26_ReportsStoredAggregates ==
  [][(board' # board /\ board'.status = 200 /\ \A p \in Procs : pc[p] = "idle")
       => \A i \in 1..Len(board'.rows) :
            LET row == board'.rows[i]
            IN /\ row.averageScore = submissions[row.id].averageScore
               /\ row.evaluationCount = submissions[row.id].totalEvaluations]_vars

(* ======================================================================= *)
(* Properties of the team handlers                                         *)
(* ======================================================================= *)
\* the accepted records of the team
AcceptedIn(teamId) == { m \in members : m.teamId = teamId /\ m.status = "accepted" }

\* C15: no user holds more than one accepted TeamMember record among the
\* teams of the same event
C15_OneTeamPerEvent ==
  \A userId \in TeamUsers, eventId \in EventIds :
    Cardinality(ExistingTeam(userId, eventId)) <= 1

\* C16: every team with at least one accepted member has at least one
\* accepted member whose role is admin
C16_HasAcceptedAdmin ==
  \A t \in 1..Len(teams) :
    (~teams[t].deleted /\ AcceptedIn(t) # {})
      => \E m \in AcceptedIn(t) : m.role = "admin"

\* C17: the accepted members of a team never outnumber the maxTeamSize of
\* the team's event
C17_WithinMaxTeamSize ==
  \A t \in 1..Len(teams) :
    ~teams[t].deleted => Cardinality(AcceptedIn(t)) <= Events[teams[t].eventId].maxTeamSize

\* C28: the leaderId of every non-deleted Team is a user who holds a
\* TeamMember record with status accepted in that team
C28_LeaderIsAcceptedMember ==
  \A t \in 1..Len(teams) :
    TeamFound(t)
      => \E m \in members : /\ m.teamId = t
                            /\ m.userId = teams[t].leaderId
                            /\ m.status = "accepted"

\* the request joinTeam has just answered carried the invite code of an
\* existing team whose event still registers, from a user without an accepted
\* team in that event and without a record in the team, and the team had
\* fewer accepted members than maxTeamSize
JoinableRequest ==
  /\ resp'.op = "joinTeam"
  /\ started' # started
  /\ TeamFound(resp'.inviteCode)
  /\ LET team == teams[resp'.inviteCode]
         event == Events[team.eventId]
     IN /\ ~DateGt(now, NewDate(event.registrationEnd))
        /\ ExistingTeam(resp'.userId, team.eventId) = {}
        /\ MemberRows(team.id, resp'.userId) = {}
        /\ Cardinality({m \in members : m.teamId = team.id /\ m.status = "accepted"})
             < event.maxTeamSize

\* C30: a joinTeam request with a valid invite code of a team below
\* maxTeamSize, from a user with no accepted team in the event, completes with
\* its member count taken and the user added to the team
C30_ValidJoinAdds ==
  [][JoinableRequest
       => /\ resp'.status = 200
          /\ \E m \in members' : /\ m.teamId = resp'.inviteCode
                                 /\ m.userId = resp'.userId]_vars

(* ======================================================================= *)
(* Properties of the event handlers                                        *)
(* ======================================================================= *)
\* C21: every persisted Event has endDate > startDate, registrationEnd <
\* startDate and, when submissionDeadline is set, submissionDeadline <= endDate
C21_DatesOrdered ==
  \A i \in 1..Len(eventRows) :
    /\ eventRows[i].endDate > eventRows[i].startDate
    /\ eventRows[i].registrationEnd < eventRows[i].startDate
    /\ (eventRows[i].submissionDeadline # Null
          => eventRows[i].submissionDeadline <= eventRows[i].endDate)

\* C27: an updateEvent request leaves organizerId, slug, isPublished and
\* status of every published event as they were
C27_RestrictedFieldsKept ==
  [][(resp'.op = "updateEvent" /\ started' # started)
       => \A i \in 1..Len(eventRows) :
            eventRows[i].isPublished
              => /\ eventRows'[i].organizerId = eventRows[i].organizerId
                 /\ eventRows'[i].slug = eventRows[i].slug
                 /\ eventRows'[i].isPublished = eventRows[i].isPublished
                 /\ eventRows'[i].status = eventRows[i].status]_vars

====
